---------------------------- MODULE Spec2Model ----------------------------
(***************************************************************************)
(* The project-manifest patchers of scripts/integrate_ios_library.py and   *)
(* scripts/integrate_macos_library.py, and the integration check of        *)
(* scripts/integrate_android_library.py.                                   *)
(*                                                                         *)
(* A manifest (project.pbxproj) is a sequence of WORDS.  A word is a piece *)
(* of the file's text; white space between words is elided.  The lexing    *)
(* keeps every character that a regular expression or a substring test of  *)
(* the scripts looks at visible at word level:                             *)
(*   - the characters  )  }  "  are always words of their own, so the      *)
(*     character classes [^)] [^}] [^"] are "any word but that one";       *)
(*   - ( { = ; , and the comment brackets are words of their own wherever  *)
(*     a pattern names them;                                               *)
(*   - every string the scripts search for (libfipers.a, libfipers,        *)
(*     Frameworks, -force_load, -lfipers, OTHER_LDFLAGS, ...) occurs in    *)
(*     the text exactly where its word sequence occurs in the manifest,    *)
(*     e.g. libfipers.a is "libfipers" ".a" and PBXFrameworksBuildPhase is *)
(*     "PBX" "Frameworks" "BuildPhase".                                    *)
(* Two manifests that are equal as word sequences differ at most in white  *)
(* space; every text the scripts insert holds a word, so "unchanged" at    *)
(* word level is "byte-identical" for the scripts' outputs.                *)
(***************************************************************************)
EXTENDS Integers, Sequences, FiniteSets

\* ------------------------------------------------------------------ bounds
MaxRuns == 2      \* successive invocations of the script in one behaviour
MaxBlocks == 2    \* buildSettings blocks in an initial iOS manifest

\* ------------------------------------------------------------------- words
Q == "\""
RP == ")"
RB == "}"

NoFile == <<"<no such file>">>

\* library_name, as text and as words
IosLib == "libfipers.a"
MacLib == "libfipers.dylib"
SslLib == "libssl.3.dylib"
CryptoLib == "libcrypto.3.dylib"

Lex(name) ==
    CASE name = "libfipers.a" -> <<"libfipers", ".a">>
      [] name = "libfipers.dylib" -> <<"libfipers", ".dylib">>
      [] name = "libssl.3.dylib" -> <<"libssl.3.dylib">>
      [] name = "libcrypto.3.dylib" -> <<"libcrypto.3.dylib">>
      [] name = "libfipers" -> <<"libfipers">>
      [] OTHER -> <<name>>

\* ------------------------------------------------------------ identifiers
\* the texts the scripts hash: f"{library_name}_file_ref", f"{library_name}_build_file"
Libraries == {IosLib, MacLib, SslLib, CryptoLib}
Roles == {"_file_ref", "_build_file"}
HashedTexts == {name \o role : name \in Libraries, role \in Roles}

Lower == "abcdefghijklmnopqrstuvwxyz"
Upper == "ABCDEFGHIJKLMNOPQRSTUVWXYZ"

\* ord(c) for the characters of the hashed texts
ord(c) ==
    CASE c = "." -> 46
      [] c = "3" -> 51
      [] c = "_" -> 95
      [] OTHER -> 96 + (CHOOSE k \in 1..26 : SubSeq(Lower, k, k) = c)

\* text.encode(): the bytes of an ASCII text
encode(text) == [i \in 1..Len(text) |-> ord(SubSeq(text, i, i))]

\* hashlib.sha1 (FIPS 180-4).  A 32-bit word is <<high 16 bits, low 16 bits>>.
H16 == 65536

RECURSIVE Bitwise(_, _, _, _)
Bitwise(op, a, b, n) ==
    IF n = 0 THEN 0
    ELSE 2 * Bitwise(op, a \div 2, b \div 2, n - 1)
         + (CASE op = "xor" -> ((a % 2) + (b % 2)) % 2
              [] op = "and" -> (a % 2) * (b % 2)
              [] op = "or" -> ((a % 2) + (b % 2) + 1) \div 2)

\* a op b of two words; "add" is addition modulo 2^32.  The singleton sets
\* name the value of each operand, so that it is computed once.
Word2(op, a, b) ==
    CHOOSE r \in {IF op = "add"
                  THEN <<(p[1] + q[1] + ((p[2] + q[2]) \div H16)) % H16,
                         (p[2] + q[2]) % H16>>
                  ELSE <<Bitwise(op, p[1], q[1], 16), Bitwise(op, p[2], q[2], 16)>> :
                  p \in {a}, q \in {b}} : TRUE

Xor(a, b) == Word2("xor", a, b)
And(a, b) == Word2("and", a, b)
Or(a, b) == Word2("or", a, b)
Add(a, b) == Word2("add", a, b)
Not(a) == CHOOSE r \in {<<H16 - 1 - p[1], H16 - 1 - p[2]>> : p \in {a}} : TRUE

\* rotate left by n bits, 0 < n < 32, n # 16
Rotl(a, n) ==
    CHOOSE r \in {LET w == IF n > 16 THEN <<p[2], p[1]>> ELSE p
                      m == n % 16
                  IN  <<((w[1] * (2 ^ m)) % H16) + (w[2] \div (2 ^ (16 - m))),
                        ((w[2] * (2 ^ m)) % H16) + (w[1] \div (2 ^ (16 - m)))>> :
                  p \in {a}} : TRUE

\* padding: 0x80, zeros up to 56 modulo 64, the bit length as 8 bytes
Pad(bytes) ==
    LET n == Len(bytes)
    IN  bytes \o <<128>> \o [i \in 1..((119 - n) % 64) |-> 0]
        \o <<0, 0, 0, 0, ((8 * n) \div 16777216) % 256, ((8 * n) \div 65536) % 256,
             ((8 * n) \div 256) % 256, (8 * n) % 256>>

\* the message schedule: W[t] = ROTL1(W[t-3] ^ W[t-8] ^ W[t-14] ^ W[t-16]),
\* for the next k words
RECURSIVE Schedule(_, _)
Schedule(w, k) ==
    IF k = 0 THEN w
    ELSE IF k = 1
    THEN Append(w, Rotl(Xor(Xor(w[Len(w) - 2], w[Len(w) - 7]),
                            Xor(w[Len(w) - 13], w[Len(w) - 15])), 1))
    ELSE CHOOSE r \in {Schedule(v, k - (k \div 2)) : v \in {Schedule(w, k \div 2)}} : TRUE

\* 5A827999, 6ED9EBA1, 8F1BBCDC, CA62C1D6
K(t) ==
    CASE t < 20 -> <<23170, 31129>>
      [] t >= 20 /\ t < 40 -> <<28377, 60321>>
      [] t >= 40 /\ t < 60 -> <<36635, 48348>>
      [] OTHER -> <<51810, 49622>>

F(t, b, c, d) ==
    CASE t < 20 -> Or(And(b, c), And(Not(b), d))
      [] t >= 40 /\ t < 60 -> Or(Or(And(b, c), And(b, d)), And(c, d))
      [] OTHER -> Xor(Xor(b, c), d)

\* one round: (a, b, c, d, e) <- (ROTL5(a) + f + e + k + W[t], a, ROTL30(b), c, d)
Round(w, s, t) ==
    <<Add(Add(Add(Add(Rotl(s[1], 5), F(t, s[2], s[3], s[4])), s[5]), K(t)), w[t + 1]),
      s[1], Rotl(s[2], 30), s[3], s[4]>>

\* rounds lo .. hi - 1
RECURSIVE Rounds(_, _, _, _)
Rounds(w, s, lo, hi) ==
    IF hi = lo THEN s
    ELSE IF hi = lo + 1 THEN Round(w, s, lo)
    ELSE CHOOSE r \in {Rounds(w, v, (lo + hi) \div 2, hi) :
                          v \in {Rounds(w, s, lo, (lo + hi) \div 2)}} : TRUE

\* 67452301 EFCDAB89 98BADCFE 10325476 C3D2E1F0
H0 ==
    << <<26437, 8961>>, <<61389, 43913>>, <<39098, 56574>>, <<4146, 21622>>,
       <<50130, 57840>> >>

\* the 16 big-endian words of the first 64 bytes of msg
Block16(msg) ==
    [t \in 1..16 |-> <<msg[4 * t - 3] * 256 + msg[4 * t - 2],
                       msg[4 * t - 1] * 256 + msg[4 * t]>>]

RECURSIVE Compress(_, _)
Compress(msg, h) ==
    IF msg = <<>> THEN h
    ELSE CHOOSE r \in {Compress(SubSeq(msg, 65, Len(msg)),
                                [i \in 1..5 |-> Add(h[i], s[i])]) :
                          s \in {Rounds(w, h, 0, 80) :
                                    w \in {Schedule(Block16(msg), 64)}}} : TRUE

sha1(bytes) == Compress(Pad(bytes), H0)

HexDigits == "0123456789abcdef"

Hex4(n) ==
    SubSeq(HexDigits, (n \div 4096) + 1, (n \div 4096) + 1)
    \o SubSeq(HexDigits, ((n \div 256) % 16) + 1, ((n \div 256) % 16) + 1)
    \o SubSeq(HexDigits, ((n \div 16) % 16) + 1, ((n \div 16) % 16) + 1)
    \o SubSeq(HexDigits, (n % 16) + 1, (n % 16) + 1)

\* .hexdigest(): 40 lower-case hexadecimal digits
RECURSIVE hexdigest(_)
hexdigest(h) ==
    IF h = <<>> THEN ""
    ELSE Hex4(h[1][1]) \o Hex4(h[1][2]) \o hexdigest(Tail(h))

\* str.upper() that leaves every character as it is
no_upper(s) == s

\* str.upper()
RECURSIVE upper(_)
upper(s) ==
    IF s = "" THEN ""
    ELSE LET c == SubSeq(s, 1, 1)
             ks == {k \in 1..26 : SubSeq(Lower, k, k) = c}
         IN  (IF ks = {} THEN c ELSE SubSeq(Upper, CHOOSE k \in ks : TRUE, CHOOSE k \in ks : TRUE))
             \o upper(SubSeq(s, 2, Len(s)))

\* hashlib.sha1(text.encode()).hexdigest()[:24].upper(), for each text the
\* scripts hash
generate_id_of ==
    [text \in HashedTexts |-> upper(SubSeq(hexdigest(sha1(encode(text))), 1, 24))]

generate_id(text) == generate_id_of[text]

FileRefId(name) == generate_id(name \o "_file_ref")
BuildFileId(name) == generate_id(name \o "_build_file")

\* --------------------------------------------------- substring and re.sub
Min(S) == CHOOSE x \in S : \A y \in S : x <= y
Max(S) == CHOOSE x \in S : \A y \in S : x >= y

\* the literal lit stands at position i of doc
IsAt(doc, i, lit) ==
    /\ i >= 1
    /\ i + Len(lit) - 1 <= Len(doc)
    /\ \A k \in 1..Len(lit) : doc[i + k - 1] = lit[k]

Occ(doc, lit) == {i \in 1..Len(doc) : IsAt(doc, i, lit)}

\* Python's  needle in text
Has(doc, lit) == Occ(doc, lit) # {}

\* index of the first word w at or after position from; Len(doc)+1 if none
FirstAt(doc, w, from) ==
    LET S == {j \in from..Len(doc) : doc[j] = w}
    IN  IF S = {} THEN Len(doc) + 1 ELSE Min(S)

\* re.sub(pattern, repl, doc): ends[i] is the index of the last word of the
\* pattern's match starting at i (0: no match there), repl[i] what that match
\* is replaced by.  Leftmost match first, then on from the end of the match.
RECURSIVE ReSubFrom(_, _, _, _)
ReSubFrom(doc, ends, repl, pos) ==
    LET starts == {i \in pos..Len(doc) : ends[i] # 0}
    IN  IF starts = {}
        THEN SubSeq(doc, pos, Len(doc))
        ELSE LET i == Min(starts)
             IN  SubSeq(doc, pos, i - 1) \o repl[i]
                    \o ReSubFrom(doc, ends, repl, ends[i] + 1)

ReSub(doc, ends, repl) == ReSubFrom(doc, ends, repl, 1)

\* r'(/\* End ... section \*/)'  ->  entry + '\1'
SubMarker(doc, marker, entry) ==
    LET ends == [i \in 1..Len(doc) |-> IF doc[i] = marker THEN i ELSE 0]
        repl == [i \in 1..Len(doc) |-> entry \o <<marker>>]
    IN  ReSub(doc, ends, repl)

\* r'(H[^}]*C[^)]*)': after the literal H, words other than } up to the last
\* literal C that stands before the first }, then words other than ).
ListMatchEnd(doc, i, H, C) ==
    IF ~IsAt(doc, i, H) THEN 0
    ELSE LET a == i + Len(H)
             stop == FirstAt(doc, RB, a)
             cs == {c \in a..(stop - Len(C)) : IsAt(doc, c, C)}
         IN  IF cs = {} THEN 0
             ELSE FirstAt(doc, RP, Max(cs) + Len(C)) - 1

\* re.sub(r'(H[^}]*C[^)]*)', '\1' + entry, doc)
SubListAppend(doc, H, C, entry) ==
    LET ends == [i \in 1..Len(doc) |-> ListMatchEnd(doc, i, H, C)]
        repl == [i \in 1..Len(doc) |-> SubSeq(doc, i, ends[i]) \o entry]
    IN  ReSub(doc, ends, repl)

\* ------------------------------------------------ texts the scripts insert
Quoted(ws) == <<Q>> \o ws \o <<Q, ",">>

Inherited == Quoted(<<"$(inherited", RP>>)
ForceLoad == Quoted(<<"-force_load">>)
\* "$(PROJECT_DIR)/Frameworks/libfipers.a",
ArtifactPath == Quoted(<<"$(PROJECT_DIR", RP, "/", "Frameworks", "/">> \o Lex(IosLib))
\* "$(PROJECT_DIR)/Frameworks",
SearchPath == Quoted(<<"$(PROJECT_DIR", RP, "/", "Frameworks">>)

LdHead == <<"OTHER_LDFLAGS", "=", "(">>
LspHead == <<"LIBRARY_SEARCH_PATHS", "=", "(">>

\* file_ref_entry without the trailing '\1' (iOS: archive.ar, path = name)
IosFileRefEntry(name) ==
    <<FileRefId(name), "/*">> \o Lex(name)
        \o <<"*/", "=", "{", "isa", "=", "PBXFileReference", ";",
             "lastKnownFileType", "=", "archive.ar", ";", "path", "=">>
        \o Lex(name) \o <<";", "sourceTree", "=", Q, "<group>", Q, ";", RB, ";">>

\* file_ref_entry of the macOS script (compiled.mach-o.dylib, ../Frameworks/name)
MacFileRefEntry(name) ==
    <<FileRefId(name), "/*">> \o Lex(name)
        \o <<"*/", "=", "{", "isa", "=", "PBXFileReference", ";",
             "lastKnownFileType", "=", Q, "compiled.mach-o.dylib", Q, ";",
             "path", "=", "../", "Frameworks", "/">>
        \o Lex(name) \o <<";", "sourceTree", "=", Q, "<group>", Q, ";", RB, ";">>

\* the comment of a build file: "in Frameworks" (iOS), "in Bundle Framework" (macOS)
IosPhaseName == <<"in", "Frameworks">>
MacPhaseName == <<"in", "Bundle", "Framework">>

\* build_file_entry without the trailing '\1'
BuildFileEntry(name, phaseName) ==
    <<BuildFileId(name), "/*">> \o Lex(name) \o phaseName
        \o <<"*/", "=", "{", "isa", "=", "PBXBuildFile", ";", "fileRef", "=",
             FileRefId(name), "/*">>
        \o Lex(name) \o <<"*/", ";", RB, ";">>

\* frameworks_entry without the leading '\1'
GroupEntry(name) == <<FileRefId(name), "/*">> \o Lex(name) \o <<"*/", ",">>

\* frameworks_phase_entry / bundle_framework_entry without the leading '\1'
PhaseEntry(name, phaseName) ==
    <<BuildFileId(name), "/*">> \o Lex(name) \o phaseName \o <<"*/", ",">>

EndFileRef == "/* End PBXFileReference section */"
EndBuildFile == "/* End PBXBuildFile section */"

IosGroupHead == <<"71A9A1607E036E391BA6A301", "/*", "Frameworks", "*/", "=", "{">>
IosPhaseHead == <<"97C146EB1CF9000F007C117D", "/*", "Frameworks", "*/", "=", "{">>
MacPhaseHead == <<"33CC110E2044A8840003C045", "/*", "Bundle", "Framework", "*/", "=", "{">>
ShellHead == <<"3399D490228B24CF009A79C7", "/*", "ShellScript", "*/", "=", "{">>
Children == <<"children", "=", "(">>
Files == <<"files", "=", "(">>

\* ------------------------------------------------- iOS: fresh integration
\* r'(OTHER_LDFLAGS = \([^)]*)' inside one settings block: the match runs to
\* the first ) after the head, wherever that ) stands
LdOpenEnd(s, i) ==
    IF ~IsAt(s, i, LdHead) THEN 0 ELSE FirstAt(s, RP, i + Len(LdHead)) - 1

\* the re.sub of lines 132-137
AppendForceLoad(s) ==
    LET ends == [i \in 1..Len(s) |-> LdOpenEnd(s, i)]
        repl == [i \in 1..Len(s) |-> SubSeq(s, i, ends[i]) \o ForceLoad \o ArtifactPath]
    IN  ReSub(s, ends, repl)

\* add_library_settings, on group 2 of the match (the text between the braces)
add_library_settings(settings_block) ==
    IF Has(settings_block, <<"Frameworks">>) /\ Has(settings_block, Lex("libfipers"))
    THEN settings_block
    ELSE LET s1 == IF ~Has(settings_block, <<"LIBRARY_SEARCH_PATHS">>)
                   THEN settings_block \o LspHead \o Inherited \o SearchPath \o <<RP, ";">>
                   ELSE settings_block
             s2 == IF ~Has(s1, <<"OTHER_LDFLAGS">>)
                   THEN s1 \o LdHead \o Inherited \o ForceLoad \o ArtifactPath \o <<RP, ";">>
                   ELSE IF ~Has(s1, <<"-force_load">>) /\ ~Has(s1, Lex("libfipers"))
                        THEN AppendForceLoad(s1)
                        ELSE s1
         IN  s2

BlockHead == <<"buildSettings", "=", "{">>

\* r'(buildSettings = \{)([^}]*)(\};)': the first } after the head must be
\* followed by ;
BlockMatchEnd(doc, i) ==
    IF ~IsAt(doc, i, BlockHead) THEN 0
    ELSE LET b == FirstAt(doc, RB, i + Len(BlockHead))
         IN  IF b + 1 <= Len(doc) /\ doc[b + 1] = ";" THEN b + 1 ELSE 0

\* line 142
SubBuildSettings(doc) ==
    LET ends == [i \in 1..Len(doc) |-> BlockMatchEnd(doc, i)]
        repl == [i \in 1..Len(doc) |->
                    BlockHead
                    \o add_library_settings(SubSeq(doc, i + Len(BlockHead), ends[i] - 2))
                    \o <<RB, ";">>]
    IN  ReSub(doc, ends, repl)

\* lines 84-142: the content written by a fresh integration
IosFreshContent(c) ==
    LET c1 == SubMarker(c, EndFileRef, IosFileRefEntry(IosLib))
        c2 == SubListAppend(c1, IosGroupHead, Children, GroupEntry(IosLib))
        c3 == SubMarker(c2, EndBuildFile, BuildFileEntry(IosLib, IosPhaseName))
        c4 == SubListAppend(c3, IosPhaseHead, Files, PhaseEntry(IosLib, IosPhaseName))
    IN  SubBuildSettings(c4)

\* ------------------------------------------- iOS: already integrated branch
\* r'OTHER_LDFLAGS = \([^)]*-lfipers[^)]*\)'
LdLfipersEnd(doc, i) ==
    IF ~IsAt(doc, i, LdHead) THEN 0
    ELSE LET a == i + Len(LdHead)
             p == FirstAt(doc, RP, a)
         IN  IF p <= Len(doc) /\ \E k \in a..(p - 1) : doc[k] = "-lfipers"
             THEN p ELSE 0

\* r'OTHER_LDFLAGS = \([^)]*\)'
LdClosedEnd(doc, i) ==
    IF ~IsAt(doc, i, LdHead) THEN 0
    ELSE LET p == FirstAt(doc, RP, i + Len(LdHead))
         IN  IF p <= Len(doc) THEN p ELSE 0

\* update_ldflags(match), lines 69-74
update_ldflags(ldflags) ==
    IF ~Has(ldflags, <<"-force_load">>) /\ ~Has(ldflags, Lex(IosLib))
    THEN SubSeq(ldflags, 1, Len(ldflags) - 1) \o ForceLoad \o ArtifactPath \o <<RP>>
    ELSE ldflags

\* lines 60-75: the content written when library_name is already in content
IosAlreadyContent(c) ==
    LET e1 == [i \in 1..Len(c) |-> LdLfipersEnd(c, i)]
        r1 == [i \in 1..Len(c) |-> LdHead \o Inherited \o ForceLoad \o ArtifactPath \o <<RP>>]
        c1 == ReSub(c, e1, r1)
        e2 == [i \in 1..Len(c1) |-> LdClosedEnd(c1, i)]
        r2 == [i \in 1..Len(c1) |-> update_ldflags(SubSeq(c1, i, e2[i]))]
    IN  IF ~Has(c1, <<"-force_load">>) \/ ~Has(c1, Lex(IosLib))
        THEN ReSub(c1, e2, r2)
        ELSE c1

\* ------------------------------------------------------------------ macOS
\* r'(Frameworks.*= \{[^}]*children = \([^)]*)' with re.DOTALL: from the word
\* Frameworks the greedy .* runs to the LAST "= {" of the document from which
\* the rest of the pattern matches
MacGroupEnd(doc, i) ==
    IF doc[i] # "Frameworks" THEN 0
    ELSE LET js == {j \in (i + 1)..Len(doc) :
                        ListMatchEnd(doc, j, <<"=", "{">>, Children) # 0}
         IN  IF js = {} THEN 0
             ELSE ListMatchEnd(doc, Max(js), <<"=", "{">>, Children)

\* re.sub(frameworks_group_pattern, frameworks_entry, content, flags=re.DOTALL)
SubMacGroup(doc, entry) ==
    LET ends == [i \in 1..Len(doc) |-> MacGroupEnd(doc, i)]
        repl == [i \in 1..Len(doc) |-> SubSeq(doc, i, ends[i]) \o entry]
    IN  ReSub(doc, ends, repl)

\* lines 173-195 for an OpenSSL library and lines 237-259 for libfipers.dylib:
\* the four insertions of one library
MacRegister(c, name) ==
    LET c1 == SubMarker(c, EndFileRef, MacFileRefEntry(name))
        c2 == IF Has(c1, <<"Frameworks">>) THEN SubMacGroup(c1, GroupEntry(name)) ELSE c1
        c3 == SubMarker(c2, EndBuildFile, BuildFileEntry(name, MacPhaseName))
    IN  SubListAppend(c3, MacPhaseHead, Files, PhaseEntry(name, MacPhaseName))

\* lines 170-195: for openssl_lib_name in openssl_lib_names
MacOpensslContent(c) ==
    LET c1 == IF ~Has(c, Lex(SslLib)) THEN MacRegister(c, SslLib) ELSE c
    IN  IF ~Has(c1, Lex(CryptoLib)) THEN MacRegister(c1, CryptoLib) ELSE c1

\* "${BUILT_PRODUCTS_DIR}/${WRAPPER_NAME}/Contents/Frameworks/<lib>"
BundlePath(lib) ==
    <<Q, "${BUILT_PRODUCTS_DIR", RB, "/${WRAPPER_NAME", RB, "/Contents/",
      "Frameworks", "/", lib, Q>>

Quiet == <<"2>/dev/null || true">>

\* install_name_tool -change "<old>" "@rpath/libcrypto.3.dylib" <libssl in bundle>
ChangeLine(old) ==
    <<"install_name_tool -change", Q>> \o old
        \o <<Q, Q, "@rpath/", CryptoLib, Q>> \o BundlePath(SslLib) \o Quiet

FixMarker == <<"Fix OpenSSL rpath">>

\* rpath_fix_script, lines 208-217
rpath_fix_script ==
    <<"\\n", "#">> \o FixMarker \o <<"in app bundle after copy">>
    \o <<"if [ -f">> \o BundlePath(SslLib) \o <<"]; then">>
    \o <<"install_name_tool -id", Q, "@rpath/", SslLib, Q>> \o BundlePath(SslLib) \o Quiet
    \o ChangeLine(<<"/opt/homebrew/opt/openssl@3/lib/", CryptoLib>>)
    \o ChangeLine(<<"/opt/homebrew/Cellar/openssl@3">>)
    \o ChangeLine(<<"/usr/local/opt/openssl@3/lib/", CryptoLib>>)
    \o <<"fi">>
    \o <<"if [ -f">> \o BundlePath(CryptoLib) \o <<"]; then">>
    \o <<"install_name_tool -id", Q, "@rpath/", CryptoLib, Q>> \o BundlePath(CryptoLib) \o Quiet
    \o <<"fi">>

ShellScriptKey == <<"shellScript", "=", Q>>

\* the closing quote of the script that opens at s (the first " after it)
ScriptClose(doc, s) == FirstAt(doc, Q, s + Len(ShellScriptKey))

\* where group 1 of shell_script_pattern ends: the last  shellScript = "  before
\* the first } after the head whose script text runs, free of ", up to a  ";
ShellKeyAt(doc, i) ==
    LET a == i + Len(ShellHead)
        stop == FirstAt(doc, RB, a)
        ss == {s \in a..(stop - Len(ShellScriptKey)) :
                  /\ IsAt(doc, s, ShellScriptKey)
                  /\ ScriptClose(doc, s) + 1 <= Len(doc)
                  /\ doc[ScriptClose(doc, s) + 1] = ";"}
    IN  IF ss = {} THEN 0 ELSE Max(ss)

\* r'(3399D490228B24CF009A79C7 /\* ShellScript \*\/ = \{[^}]*shellScript = ")([^"]*)(";)'
ShellMatchEnd(doc, i) ==
    IF ~IsAt(doc, i, ShellHead) THEN 0
    ELSE IF ShellKeyAt(doc, i) = 0 THEN 0
         ELSE ScriptClose(doc, ShellKeyAt(doc, i)) + 1

\* add_rpath_fix(match), lines 220-224
add_rpath_fix(doc, i) ==
    LET s == ShellKeyAt(doc, i)
        q == ScriptClose(doc, s)
        group1 == SubSeq(doc, i, s + Len(ShellScriptKey) - 1)
        existing_script == SubSeq(doc, s + Len(ShellScriptKey), q - 1)
    IN  IF ~Has(existing_script, FixMarker)
        THEN group1 \o existing_script \o rpath_fix_script \o <<Q, ";">>
        ELSE SubSeq(doc, i, q + 1)

\* lines 218-231: the content of the second write of the already-integrated branch
MacAlreadyContent(c) ==
    LET ends == [i \in 1..Len(c) |-> ShellMatchEnd(c, i)]
        repl == [i \in 1..Len(c) |-> add_rpath_fix(c, i)]
    IN  IF ~Has(c, FixMarker) THEN ReSub(c, ends, repl) ELSE c

\* lines 236-259
MacFreshContent(c) == MacRegister(c, MacLib)

\* ------------------------------------------ the manifests the model starts from
\* a linker flag of an existing OTHER_LDFLAGS list, as words
Flag(t) ==
    CASE t = "inherited" -> Inherited
      [] t = "-ObjC" -> Quoted(<<"-ObjC">>)
      [] t = "-lfipers" -> Quoted(<<"-lfipers">>)
      [] t = "-force_load" -> ForceLoad
      [] t = "libother.a" -> Quoted(<<"$(SRCROOT", RP, "/", "libother", ".a">>)
      [] t = "libfipers.a" -> ArtifactPath

RECURSIVE Flags(_)
Flags(ts) == IF ts = <<>> THEN <<>> ELSE Flag(Head(ts)) \o Flags(Tail(ts))

\* OTHER_LDFLAGS = ( <flags> );
LdList(ts) == LdHead \o Flags(ts) \o <<RP, ";">>

\* the text between the braces of  buildSettings = { ... };  A block is
\* [runpath, lsp, hasLd: BOOLEAN, flags: sequence of flag names]
Settings(b) ==
    <<"ENABLE_BITCODE", "=", "NO", ";">>
    \o (IF b.runpath
        THEN <<"LD_RUNPATH_SEARCH_PATHS", "=", "(">> \o Inherited
                \o Quoted(<<"@executable_path/", "Frameworks">>) \o <<RP, ";">>
        ELSE <<>>)
    \o (IF b.lsp
        THEN LspHead \o Inherited \o Quoted(<<"/usr/local/lib">>) \o <<RP, ";">>
        ELSE <<>>)
    \o (IF b.hasLd THEN LdList(b.flags) ELSE <<>>)

ConfigName(k) == CASE k = 1 -> "Debug" [] k = 2 -> "Release" [] OTHER -> "Profile"

\* one XCBuildConfiguration record
BuildConfiguration(k, b) ==
    <<ConfigName(k), "=", "{", "isa", "=", "XCBuildConfiguration", ";">>
    \o BlockHead \o Settings(b) \o <<RB, ";">>
    \o <<"name", "=", ConfigName(k), ";", RB, ";">>

RECURSIVE Configurations(_, _)
Configurations(bs, k) ==
    IF k > Len(bs) THEN <<>>
    ELSE BuildConfiguration(k, bs[k]) \o Configurations(bs, k + 1)

Opt(present, ws) == IF present THEN ws ELSE <<>>

\* An iOS project.pbxproj.  cfg = [endBF, endRef, group, phase, pre: BOOLEAN,
\* blocks]; pre: libfipers.a was registered by an earlier integration.
IosManifest(cfg) ==
    <<"/* Begin PBXBuildFile section */">>
    \o Opt(cfg.pre, BuildFileEntry(IosLib, IosPhaseName))
    \o Opt(cfg.endBF, <<EndBuildFile>>)
    \o <<"/* Begin PBXFileReference section */">>
    \o Opt(cfg.pre, IosFileRefEntry(IosLib))
    \o Opt(cfg.endRef, <<EndFileRef>>)
    \o Opt(cfg.phase,
           IosPhaseHead \o <<"isa", "=", "PBX", "Frameworks", "BuildPhase", ";">>
           \o Files \o <<"1A2B", "/*", "Pods_Runner.framework", "in", "Frameworks", "*/", ",">>
           \o Opt(cfg.pre, PhaseEntry(IosLib, IosPhaseName)) \o <<RP, ";", RB, ";">>)
    \o <<"97C146E51CF9000F007C117D", "=", "{", "isa", "=", "PBXGroup", ";">>
    \o Children \o <<"97C146F01CF9000F007C117D", "/*", "Runner", "*/", ",",
                     RP, ";", RB, ";">>
    \o Opt(cfg.group,
           IosGroupHead \o <<"isa", "=", "PBXGroup", ";">>
           \o Children \o <<"3C4D", "/*", "Pods_Runner.framework", "*/", ",">>
           \o Opt(cfg.pre, GroupEntry(IosLib)) \o <<RP, ";">>
           \o <<"name", "=", "Frameworks", ";", RB, ";">>)
    \o Configurations(cfg.blocks, 1)

\* A macOS project.pbxproj.  cfg = [endBF, endRef, phase, pre: BOOLEAN,
\* group: where the Frameworks group stands, shell: the ShellScript phase]
OtherGroup ==
    <<"33CC10EE2044A3C60003C045", "/*", "Products", "*/", "=", "{",
      "isa", "=", "PBXGroup", ";">>
    \o Children \o <<"33CC10ED2044A3C60003C045", "/*", "Runner.app", "*/", ",",
                     RP, ";", "name", "=", "Products", ";", RB, ";">>

MacFrameworksGroup(pre) ==
    <<"D73912EC22F37F3D000D13A0", "/*", "Frameworks", "*/", "=", "{",
      "isa", "=", "PBXGroup", ";">>
    \o Children \o Opt(pre, GroupEntry(MacLib)) \o <<RP, ";">>
    \o <<"name", "=", "Frameworks", ";", RB, ";">>

\* shellScript = "<text>"; of the template, with and without escaped quotes
ShellText(kind) ==
    IF kind = "quoted"
    THEN <<"echo", "\\", Q, "$PRODUCT_NAME.app", "\\", Q, ">", "app_filename">>
    ELSE <<"macos_assemble.sh embed">>

MacManifest(cfg) ==
    <<"/* Begin PBXBuildFile section */">>
    \o <<"33CC10F12044A3C60003C045", "/*", "AppDelegate.swift", "in", "Sources", "*/",
         "=", "{", "isa", "=", "PBXBuildFile", ";", RB, ";">>
    \o Opt(cfg.pre, BuildFileEntry(MacLib, MacPhaseName))
    \o Opt(cfg.endBF, <<EndBuildFile>>)
    \o <<"/* Begin PBXFileReference section */">>
    \o Opt(cfg.pre, MacFileRefEntry(MacLib))
    \o Opt(cfg.endRef, <<EndFileRef>>)
    \o Opt(cfg.phase,
           MacPhaseHead \o <<"isa", "=", "PBXCopyFilesBuildPhase", ";">>
           \o Files \o Opt(cfg.pre, PhaseEntry(MacLib, MacPhaseName))
           \o <<RP, ";", "name", "=", Q, "Bundle", "Framework", Q, ";", RB, ";">>)
    \o Opt(cfg.shell # "none",
           ShellHead \o <<"isa", "=", "PBXShellScriptBuildPhase", ";">>
           \o ShellScriptKey \o ShellText(cfg.shell) \o <<Q, ";", RB, ";">>)
    \o Opt(cfg.group = "last", OtherGroup)
    \o Opt(cfg.group # "none", MacFrameworksGroup(cfg.pre))
    \o Opt(cfg.group = "first", OtherGroup)

\* ------------------------------------------------------------------- state
VARIABLES
    target,       \* which script is run: "ios", "macos" or "android"
    gradle,       \* android/app/build.gradle.kts: its words, or NoFile
    platformDir,  \* <project_root>/ios (or /macos) exists
    manifest,     \* Runner.xcodeproj/project.pbxproj: its words, or NoFile
    backup,       \* project.pbxproj.backup: its words, or NoFile
    frameworks,   \* <platform>/Frameworks: [dir: it exists, files: the names in it]
    library,      \* fipers_root/<platform>/build/<library_name> exists
    pc,           \* where the running invocation stands; "idle" between runs
    content,      \* the local variable content of integrate_library
    out,          \* the messages printed by the current (or last) run
    status,       \* "none", "running", or the exit status "exit0" / "exit1"
    runs,         \* invocations started so far
    start,        \* manifest, backup and frameworks as the current run found them
    wrote         \* the current run has written project.pbxproj

vars == <<target, gradle, platformDir, manifest, backup, frameworks, library, pc, content,
          out, status, runs, start, wrote>>

Block(runpath, lsp, hasLd, flags) ==
    [runpath |-> runpath, lsp |-> lsp, hasLd |-> hasLd, flags |-> flags]

\* buildSettings blocks of a project that never mentioned libfipers.a
FreshBlocks ==
    { Block(TRUE, FALSE, FALSE, <<>>),
      Block(FALSE, TRUE, FALSE, <<>>),
      Block(FALSE, FALSE, TRUE, <<"-ObjC">>),
      Block(TRUE, FALSE, TRUE, <<"inherited", "-ObjC">>),
      Block(FALSE, FALSE, TRUE, <<"-lfipers">>),
      Block(FALSE, FALSE, TRUE, <<"-force_load", "libother.a">>) }

\* buildSettings blocks of a project where libfipers.a is registered already
RegisteredBlocks ==
    { Block(TRUE, FALSE, FALSE, <<>>),
      Block(FALSE, TRUE, TRUE, <<"-lfipers">>),
      Block(TRUE, FALSE, TRUE, <<"inherited", "-lfipers">>),
      Block(TRUE, FALSE, TRUE, <<"inherited", "-force_load", "libfipers.a">>),
      Block(FALSE, FALSE, TRUE, <<"-force_load", "libother.a">>) }

BlockSeqs(V) == UNION {[1..n -> V] : n \in 1..MaxBlocks}

IosCfg(endBF, endRef, group, phase, pre, blocks) ==
    [endBF |-> endBF, endRef |-> endRef, group |-> group, phase |-> phase,
     pre |-> pre, blocks |-> blocks]

IosConfigs ==
    {IosCfg(TRUE, TRUE, TRUE, TRUE, FALSE, bs) : bs \in BlockSeqs(FreshBlocks)}
    \cup {IosCfg(TRUE, TRUE, TRUE, TRUE, TRUE, bs) : bs \in BlockSeqs(RegisteredBlocks)}
    \cup {IosCfg(endBF, endRef, group, phase, FALSE, <<Block(TRUE, FALSE, FALSE, <<>>)>>) :
            endBF \in BOOLEAN, endRef \in BOOLEAN, group \in BOOLEAN, phase \in BOOLEAN}

MacCfg(endBF, endRef, phase, pre, group, shell) ==
    [endBF |-> endBF, endRef |-> endRef, phase |-> phase, pre |-> pre,
     group |-> group, shell |-> shell]

MacConfigs ==
    {MacCfg(TRUE, TRUE, TRUE, pre, g, sh) :
        pre \in BOOLEAN, g \in {"none", "only", "first", "last"},
        sh \in {"none", "plain", "quoted"}}
    \cup {MacCfg(endBF, endRef, phase, FALSE, "only", "plain") :
            endBF \in BOOLEAN, endRef \in BOOLEAN, phase \in BOOLEAN}

Manifests(t) ==
    IF t = "ios" THEN {IosManifest(cfg) : cfg \in IosConfigs}
    ELSE {MacManifest(cfg) : cfg \in MacConfigs}

\* android/app/build.gradle.kts, as words: without a native build, with the
\* CMake build of the plugin, with an ndk-build, and one that only mentions
\* cmake in a comment
GradleFile(kind) ==
    <<"android", "{", "namespace", "=", Q, "com.example.app", Q,
      "defaultConfig", "{", "minSdk", "=", "24", RB>>
    \o (CASE kind = "cmake" ->
               <<"externalNativeBuild", "{", "cmake", "{", "path", "=", "file(",
                 Q, "../../android/CMakeLists.txt", Q, RP, RB, RB>>
          [] kind = "ndkBuild" ->
               <<"externalNativeBuild", "{", "ndkBuild", "{", "path", "=", "file(",
                 Q, "Android.mk", Q, RP, RB, RB>>
          [] kind = "comment" -> <<"//", "no", "cmake", "build", "yet">>
          [] OTHER -> <<>>)
    \o <<RB>>

GradleFiles == {GradleFile(kind) : kind \in {"plain", "cmake", "ndkBuild", "comment"}}

Snapshot == [manifest |-> manifest, backup |-> backup, frameworks |-> frameworks]

Init ==
    /\ target \in {"ios", "macos", "android"}
    /\ platformDir \in BOOLEAN
    /\ manifest \in (IF platformDir /\ target # "android"
                     THEN Manifests(target) \cup {NoFile} ELSE {NoFile})
    /\ gradle \in (IF platformDir /\ target = "android"
                   THEN GradleFiles \cup {NoFile} ELSE {NoFile})
    /\ backup = NoFile
    /\ frameworks = [dir |-> FALSE, files |-> {}]
    /\ library = FALSE
    /\ pc = "idle"
    /\ content = <<>>
    /\ out = {}
    /\ status = "none"
    /\ runs = 0
    /\ start = [manifest |-> manifest, backup |-> NoFile,
                frameworks |-> [dir |-> FALSE, files |-> {}]]
    /\ wrote = FALSE

\* sys.exit(1) of main, or  if not success: sys.exit(1)
Fail(msg) ==
    /\ out' = out \cup {msg}
    /\ status' = "exit1"
    /\ pc' = "idle"

\* ------------------------------------------------------------------- main
\* main() up to the call of integrate_library.  where: which project root the
\* directory checks select; script: build.sh exists; rc: its return code;
\* built: the library file exists once build.sh has run.
Main(t, where, script, rc, built) ==
    /\ pc = "idle"
    /\ target = t
    /\ runs < MaxRuns
    /\ where = "cwd" => platformDir
    /\ runs' = runs + 1
    /\ start' = Snapshot
    /\ wrote' = FALSE
    /\ library' = IF where # "none" /\ script THEN built ELSE library
    /\ IF where = "none"
       THEN /\ out' = {"Error: This script must be run from a Flutter project root"}
            /\ status' = "exit1"
            /\ pc' = "idle"
       ELSE IF script /\ rc # 0
       THEN /\ out' = {"Error building library"}
            /\ status' = "exit1"
            /\ pc' = "idle"
       ELSE IF ~library'
       THEN /\ out' = {"Error: Library not found"}
            /\ status' = "exit1"
            /\ pc' = "idle"
       ELSE /\ out' = {}
            /\ status' = "running"
            /\ pc' = "check"
    /\ UNCHANGED <<target, gradle, platformDir, manifest, backup, frameworks, content>>

IosMain ==
    \E where \in {"cwd", "example", "none"}, script \in BOOLEAN, rc \in {0, 1},
       built \in BOOLEAN : Main("ios", where, script, rc, built)

MacMain ==
    \E where \in {"cwd", "example", "none"}, script \in BOOLEAN, rc \in {0, 1},
       built \in BOOLEAN : Main("macos", where, script, rc, built)

\* -------------------------------------------------- iOS integrate_library
\* IosCheckPaths with lines 40-43 (mkdir and copy) moved before the checks
IosCheckPathsCopyFirst ==
    /\ pc = "check"
    /\ target = "ios"
    /\ frameworks' = [dir |-> TRUE, files |-> frameworks.files \cup {IosLib}]
    /\ IF ~platformDir THEN Fail("Error: iOS directory not found")
       ELSE IF manifest = NoFile THEN Fail("Error: Xcode project not found")
       ELSE IF ~library THEN Fail("Error: Library not found")
       ELSE pc' = "copy" /\ UNCHANGED <<out, status>>
    /\ UNCHANGED <<target, gradle, platformDir, manifest, backup, library,
                   content, runs, start, wrote>>

\* lines 27-38
IosCheckPaths ==
    /\ pc = "check"
    /\ target = "ios"
    /\ IF ~platformDir THEN Fail("Error: iOS directory not found")
       ELSE IF manifest = NoFile THEN Fail("Error: Xcode project not found")
       ELSE IF ~library THEN Fail("Error: Library not found")
       ELSE pc' = "copy" /\ UNCHANGED <<out, status>>
    /\ UNCHANGED <<target, gradle, platformDir, manifest, backup, frameworks, library,
                   content, runs, start, wrote>>

\* lines 40-44
IosCopy ==
    /\ pc = "copy"
    /\ target = "ios"
    /\ frameworks' = [dir |-> TRUE, files |-> frameworks.files \cup {IosLib}]
    /\ out' = out \cup {"Copied library"}
    /\ pc' = "read"
    /\ UNCHANGED <<target, gradle, platformDir, manifest, backup, library, content,
                   status, runs, start, wrote>>

\* lines 46-48
IosRead ==
    /\ pc = "read"
    /\ target = "ios"
    /\ content' = manifest
    /\ pc' = "backup"
    /\ UNCHANGED <<target, gradle, platformDir, manifest, backup, frameworks, library,
                   out, status, runs, start, wrote>>

\* lines 50-53
IosBackup ==
    /\ pc = "backup"
    /\ target = "ios"
    /\ backup' = manifest
    /\ out' = out \cup {"Created backup"}
    /\ pc' = "patch"
    /\ UNCHANGED <<target, gradle, platformDir, manifest, frameworks, library, content,
                   status, runs, start, wrote>>

\* lines 55-82, and main's exit
IosAlready ==
    /\ pc = "patch"
    /\ target = "ios"
    /\ Has(content, Lex(IosLib))
    /\ content' = IosAlreadyContent(content)
    /\ manifest' = content'
    /\ wrote' = TRUE
    /\ out' = out \cup {"Library already integrated", "Updated link flags"}
    /\ status' = "exit0"
    /\ pc' = "idle"
    /\ UNCHANGED <<target, gradle, platformDir, backup, frameworks, library, runs, start>>

\* IosFresh with the backup copy (line 52) taken after the write of line 146
IosFreshBackupLate ==
    /\ pc = "patch"
    /\ target = "ios"
    /\ ~Has(content, Lex(IosLib))
    /\ content' = IosFreshContent(content)
    /\ manifest' = content'
    /\ backup' = manifest'
    /\ wrote' = TRUE
    /\ out' = out \cup {"Successfully integrated"}
    /\ status' = "exit0"
    /\ pc' = "idle"
    /\ UNCHANGED <<target, gradle, platformDir, frameworks, library, runs, start>>

\* lines 84-158, and main's exit
IosFresh ==
    /\ pc = "patch"
    /\ target = "ios"
    /\ ~Has(content, Lex(IosLib))
    /\ content' = IosFreshContent(content)
    /\ manifest' = content'
    /\ wrote' = TRUE
    /\ out' = out \cup {"Successfully integrated"}
    /\ status' = "exit0"
    /\ pc' = "idle"
    /\ UNCHANGED <<target, gradle, platformDir, backup, frameworks, library, runs, start>>

\* ------------------------------------------------ macOS integrate_library
\* lines 20-27
MacCheckPaths ==
    /\ pc = "check"
    /\ target = "macos"
    /\ IF ~platformDir THEN Fail("Error: macOS directory not found")
       ELSE IF ~library THEN Fail("Error: Library not found")
       ELSE pc' = "copy" /\ UNCHANGED <<out, status>>
    /\ UNCHANGED <<target, gradle, platformDir, manifest, backup, frameworks, library,
                   content, runs, start, wrote>>

\* lines 42-65: the OpenSSL libraries found, given which of the four candidate
\* files exist (homebrew prefix first, /usr/local when its libssl is missing)
CopiedOpenssl(sslBrew, cryptoBrew, sslLocal, cryptoLocal) ==
    IF sslBrew
    THEN {SslLib} \cup (IF cryptoBrew THEN {CryptoLib} ELSE {})
    ELSE (IF sslLocal THEN {SslLib} ELSE {}) \cup (IF cryptoLocal THEN {CryptoLib} ELSE {})

\* lines 29-65.  Lines 67-152 run otool, install_name_tool and codesign on the
\* copied binaries: they rename nothing and do not touch the manifest.
MacCopy ==
    /\ pc = "copy"
    /\ target = "macos"
    /\ \E sslBrew \in BOOLEAN, cryptoBrew \in BOOLEAN, sslLocal \in BOOLEAN,
          cryptoLocal \in BOOLEAN :
          LET copied == CopiedOpenssl(sslBrew, cryptoBrew, sslLocal, cryptoLocal)
          IN  /\ frameworks' = [dir |-> TRUE,
                                files |-> frameworks.files \cup {MacLib} \cup copied]
              /\ out' = out \cup {"Copied library"}
                          \cup (IF copied # {SslLib, CryptoLib}
                                THEN {"OpenSSL library not found"} ELSE {})
    /\ pc' = "project"
    /\ UNCHANGED <<target, gradle, platformDir, manifest, backup, library, content,
                   status, runs, start, wrote>>

\* lines 154-156: if xcode_project.exists()
MacFindProject ==
    /\ pc = "project"
    /\ target = "macos"
    /\ pc' = IF manifest # NoFile THEN "read" ELSE "finish"
    /\ UNCHANGED <<target, gradle, platformDir, manifest, backup, frameworks, library,
                   content, out, status, runs, start, wrote>>

\* lines 160-162
MacRead ==
    /\ pc = "read"
    /\ target = "macos"
    /\ content' = manifest
    /\ pc' = "backup"
    /\ UNCHANGED <<target, gradle, platformDir, manifest, backup, frameworks, library,
                   out, status, runs, start, wrote>>

\* lines 164-167
MacBackup ==
    /\ pc = "backup"
    /\ target = "macos"
    /\ backup' = manifest
    /\ out' = out \cup {"Created backup"}
    /\ pc' = "openssl"
    /\ UNCHANGED <<target, gradle, platformDir, manifest, frameworks, library, content,
                   status, runs, start, wrote>>

\* lines 169-195
MacOpenssl ==
    /\ pc = "openssl"
    /\ target = "macos"
    /\ content' = MacOpensslContent(content)
    /\ pc' = "patch"
    /\ UNCHANGED <<target, gradle, platformDir, manifest, backup, frameworks, library,
                   out, status, runs, start, wrote>>

\* lines 197-234: content is written, then written again with the rpath fix
\* script when "Fix OpenSSL rpath" is not in it
MacAlready ==
    /\ pc = "patch"
    /\ target = "macos"
    /\ Has(content, Lex(MacLib))
    /\ content' = MacAlreadyContent(content)
    /\ manifest' = content'
    /\ wrote' = TRUE
    /\ out' = out \cup {"Library already in Xcode project", "Added OpenSSL libraries"}
                  \cup (IF ~Has(content, FixMarker)
                        THEN {"Added rpath fix script"} ELSE {})
    /\ pc' = "finish"
    /\ UNCHANGED <<target, gradle, platformDir, backup, frameworks, library, status,
                   runs, start>>

\* lines 235-265
MacFresh ==
    /\ pc = "patch"
    /\ target = "macos"
    /\ ~Has(content, Lex(MacLib))
    /\ content' = MacFreshContent(content)
    /\ manifest' = content'
    /\ wrote' = TRUE
    /\ out' = out \cup {"Added library to Xcode project"}
    /\ pc' = "finish"
    /\ UNCHANGED <<target, gradle, platformDir, backup, frameworks, library, status,
                   runs, start>>

\* lines 268-276, and main's exit
MacFinish ==
    /\ pc = "finish"
    /\ target = "macos"
    /\ out' = out \cup {"Successfully integrated"}
    /\ status' = "exit0"
    /\ pc' = "idle"
    /\ UNCHANGED <<target, gradle, platformDir, manifest, backup, frameworks, library,
                   content, runs, start, wrote>>

\* ------------------------------------------- integrate_android_library.py
\* check_openssl_for_android: prints a note, returns True
check_openssl_for_android == {"Note: Android requires OpenSSL to be built separately"}

\* verify_cmake_integration: what it prints.  It reads build.gradle.kts and
\* writes nothing.
verify_cmake_integration(build_gradle) ==
    IF build_gradle = NoFile
    THEN {"build.gradle.kts not found"}
    ELSE IF ~Has(build_gradle, <<"externalNativeBuild">>) \/ ~Has(build_gradle, <<"cmake">>)
    THEN {"CMake integration not found in build.gradle.kts",
          "The script will add it, but you may need to rebuild."}
    ELSE {"CMake integration found in build.gradle.kts"}

\* main of the Android script.  root: a project root was given or found;
\* inRepo: <root>/../lib/fipers.dart exists; dependency: pubspec.yaml exists
\* and holds "fipers:"; cmakeLists: <root>/../android/CMakeLists.txt exists.
AndroidMain ==
    /\ pc = "idle"
    /\ target = "android"
    /\ runs < MaxRuns
    /\ runs' = runs + 1
    /\ start' = Snapshot
    /\ wrote' = FALSE
    /\ \E root \in BOOLEAN, inRepo \in BOOLEAN, dependency \in BOOLEAN,
          cmakeLists \in BOOLEAN :
          IF ~root
          THEN /\ out' = {"Error: Could not find Flutter project root"}
               /\ status' = "exit1"
          ELSE IF ~inRepo /\ gradle # NoFile /\ dependency
          THEN /\ out' = {"fipers is a dependency"}
               /\ status' = "exit0"
          ELSE IF (~inRepo /\ gradle # NoFile) \/ ~cmakeLists
          THEN /\ out' = {"Could not find fipers root with android/CMakeLists.txt"}
               /\ status' = "exit0"
          ELSE /\ out' = check_openssl_for_android \cup verify_cmake_integration(gradle)
                            \cup {"Android library integration check complete"}
               /\ status' = "exit0"
    /\ UNCHANGED <<target, gradle, platformDir, manifest, backup, frameworks, library,
                   pc, content>>

Next ==
    \/ IosMain
    \/ IosCheckPaths
    \/ IosCopy
    \/ IosRead
    \/ IosBackup
    \/ IosAlready
    \/ IosFresh
    \/ MacMain
    \/ MacCheckPaths
    \/ MacCopy
    \/ MacFindProject
    \/ MacRead
    \/ MacBackup
    \/ MacOpenssl
    \/ MacAlready
    \/ MacFresh
    \/ MacFinish
    \/ AndroidMain

Spec == Init /\ [][Next]_vars

\* ------------------------------------------------- reading a manifest back
\* the positions of the PBXFileReference / PBXBuildFile records that name lib
RecordsOf(doc, isa, name) ==
    {i \in Occ(doc, <<"isa", "=", isa, ";">>) :
        Has(SubSeq(doc, i, FirstAt(doc, RB, i)), Lex(name))}

FileRefCount(doc, name) == Cardinality(RecordsOf(doc, "PBXFileReference", name))
BuildFileCount(doc, name) == Cardinality(RecordsOf(doc, "PBXBuildFile", name))

\* the libraries a script registers
Artifacts(t) == IF t = "ios" THEN {IosLib} ELSE {MacLib, SslLib, CryptoLib}

\* the k-th buildSettings block: from its head up to the next block's head
BlockCount(doc) == Cardinality(Occ(doc, BlockHead))

BlockRegion(doc, k) ==
    LET S == Occ(doc, BlockHead)
        from == CHOOSE i \in S : Cardinality({j \in S : j <= i}) = k
        later == {j \in S : j > from}
    IN  SubSeq(doc, from, IF later = {} THEN Len(doc) ELSE Min(later) - 1)

\* the words of the OTHER_LDFLAGS list of a block, between "(" and the ")"
\* that closes the list (the first one followed by ";")
LdListBody(region) ==
    LET a == Min(Occ(region, LdHead)) + Len(LdHead)
        close == Min({j \in a..Len(region) : IsAt(region, j, <<RP, ";">>)})
    IN  SubSeq(region, a, close - 1)

\* a run has ended (pc is "idle" before the first run too)
RunEnded == pc = "idle" /\ status \in {"exit0", "exit1"}

\* the run that just ended patched a manifest that never mentioned libfipers.a
IosFreshRunEnded ==
    /\ target = "ios"
    /\ RunEnded
    /\ wrote
    /\ ~Has(start.manifest, Lex(IosLib))

\* every message of the scripts that is not an error
ProgressMessages ==
    {"Copied library", "Created backup", "Library already integrated",
     "Updated link flags", "Successfully integrated", "OpenSSL library not found",
     "Library already in Xcode project", "Added OpenSSL libraries",
     "Added rpath fix script", "Added library to Xcode project"}

\* ------------------------------------------------------------------ claims
\* C1: iOS idempotence.  A run of the iOS script on a manifest that an earlier
\* run of the script has written (its backup exists) writes that manifest
\* back unchanged: running twice gives what running once gives.
C1_IosIdempotent ==
    (target = "ios" /\ RunEnded /\ wrote /\ start.backup # NoFile)
        => manifest = start.manifest

\* C2: uniqueness.  After every run that wrote the manifest, each library the
\* script registers has exactly one PBXFileReference record and exactly one
\* PBXBuildFile record in it.
C2_ExactlyOneRecord ==
    (RunEnded /\ wrote)
        => \A name \in Artifacts(target) :
              /\ FileRefCount(manifest, name) = 1
              /\ BuildFileCount(manifest, name) = 1

\* C3: flag completeness.  After the first integration of a manifest that did
\* not mention libfipers.a, every buildSettings block holds the search path
\* "$(PROJECT_DIR)/Frameworks" and the tokens "-force_load",
\* "$(PROJECT_DIR)/Frameworks/libfipers.a".
C3_FlagsInEveryBlock ==
    IosFreshRunEnded
        => \A k \in 1..BlockCount(manifest) :
              /\ Has(BlockRegion(manifest, k), SearchPath)
              /\ Has(BlockRegion(manifest, k), ForceLoad \o ArtifactPath)

\* C4: backup invariant.  Whenever the current run has written
\* project.pbxproj, project.pbxproj.backup exists and holds the manifest as
\* the run found it: the backup is made before the first write and is still
\* that copy when the run has ended.
C4_BackupIsStartManifest ==
    wrote => (backup # NoFile /\ backup = start.manifest)

\* a second run has rewritten the manifest and replaced the first run's backup
C4_Witness ==
    /\ RunEnded
    /\ wrote
    /\ start.backup # NoFile
    /\ backup # start.backup
    /\ manifest # start.manifest

\* C5: preservation of existing linker flags.  After a first integration,
\* every block whose OTHER_LDFLAGS list held neither -force_load nor libfipers
\* holds the same list with "-force_load" and the artifact path added after
\* its last token.
C5_FlagsAppendedAtEnd ==
    IosFreshRunEnded
        => \A k \in 1..BlockCount(start.manifest) :
              LET before == BlockRegion(start.manifest, k)
              IN  (/\ Has(before, LdHead)
                   /\ ~Has(before, <<"-force_load">>)
                   /\ ~Has(before, Lex("libfipers")))
                  => Has(BlockRegion(manifest, k),
                         LdHead \o LdListBody(before) \o ForceLoad \o ArtifactPath
                            \o <<RP, ";">>)

\* C6: a missing manifest is a failure.  A run of an Xcode script that found no
\* Runner.xcodeproj/project.pbxproj ends with a non-zero exit status and never
\* prints the success message.
C6_MissingManifestFails ==
    (target \in {"ios", "macos"} /\ RunEnded /\ start.manifest = NoFile)
        => (status = "exit1" /\ "Successfully integrated" \notin out)

\* C7: no mutation on error.  A run that ended in failure left the manifest,
\* its backup and the Frameworks directory as it found them.
C7_FailureChangesNothing ==
    (RunEnded /\ status = "exit1")
        => /\ manifest = start.manifest
           /\ backup = start.backup
           /\ frameworks = start.frameworks

\* build.sh failed in a run that follows a successful integration
C7_Witness ==
    /\ RunEnded
    /\ status = "exit1"
    /\ "Error building library" \in out
    /\ backup # NoFile
    /\ frameworks.dir

\* C8: a missing section marker is surfaced.  A first integration of a
\* manifest without the "End PBXBuildFile section" marker (and with the "End
\* PBXFileReference section" marker) inserts the file reference, inserts no
\* build file, and either fails or prints something that a normal run does
\* not print.
C8_MissingMarkerReported ==
    (/\ RunEnded
     /\ wrote
     /\ \A name \in Artifacts(target) : ~Has(start.manifest, Lex(name))
     /\ ~Has(start.manifest, <<EndBuildFile>>)
     /\ Has(start.manifest, <<EndFileRef>>))
        => /\ \A name \in Artifacts(target) :
                 /\ FileRefCount(manifest, name) = 1
                 /\ BuildFileCount(manifest, name) = 0
           /\ (status = "exit1" \/ out \ ProgressMessages # {})

\* C9: macOS re-patching is a no-op.  A run of the macOS script on a manifest
\* that an earlier run has written and that registers all three libraries
\* leaves the manifest unchanged.
C9_MacRepatchNoOp ==
    (/\ target = "macos"
     /\ RunEnded
     /\ wrote
     /\ start.backup # NoFile
     /\ \A name \in Artifacts("macos") :
           /\ FileRefCount(start.manifest, name) = 1
           /\ BuildFileCount(start.manifest, name) = 1)
        => manifest = start.manifest

\* the children list of the Frameworks group / the files list of the
\* Frameworks build phase of an iOS manifest, up to its closing ")"
ListAfter(doc, head, key) ==
    LET h == Min(Occ(doc, head))
        c == Min({j \in Occ(doc, key) : j > h})
    IN  SubSeq(doc, c, FirstAt(doc, RP, c))

\* C10: fresh integration postcondition.  From a manifest with both section
\* markers, the Frameworks group, the Frameworks build phase, one or more
\* buildSettings blocks and no mention of libfipers.a, one run yields one file
\* reference, one build file that refers to it, one new child of the group,
\* one new entry of the phase, and the forced-load flags in every block.
C10_FreshPostcondition ==
    (/\ IosFreshRunEnded
     /\ Cardinality(Occ(start.manifest, <<EndFileRef>>)) = 1
     /\ Cardinality(Occ(start.manifest, <<EndBuildFile>>)) = 1
     /\ Has(start.manifest, IosGroupHead)
     /\ Has(start.manifest, IosPhaseHead)
     /\ BlockCount(start.manifest) >= 1)
        => /\ FileRefCount(manifest, IosLib) = 1
           /\ BuildFileCount(manifest, IosLib) = 1
           /\ Cardinality(Occ(manifest, BuildFileEntry(IosLib, IosPhaseName))) = 1
           /\ Cardinality(Occ(ListAfter(manifest, IosGroupHead, Children),
                              GroupEntry(IosLib))) = 1
           /\ Cardinality(Occ(ListAfter(manifest, IosPhaseHead, Files),
                              PhaseEntry(IosLib, IosPhaseName))) = 1
           /\ \A k \in 1..BlockCount(manifest) :
                 Has(BlockRegion(manifest, k), ForceLoad \o ArtifactPath)

\* ---------------------------------------------------- C11: the identifiers
\* the identifiers that stand before the records of kind isa whose comment is
\* the given one
RecordIds(doc, isa, comment) ==
    {doc[i - 1] : i \in {j \in 2..Len(doc) :
                            /\ doc[j] = "/*"
                            /\ IsAt(doc, j + 1, comment \o <<"*/", "=", "{", "isa", "=", isa>>)}}

FileRefIds(doc, name) == RecordIds(doc, "PBXFileReference", Lex(name))

BuildFileIds(doc, name) ==
    RecordIds(doc, "PBXBuildFile", Lex(name) \o IosPhaseName)
    \cup RecordIds(doc, "PBXBuildFile", Lex(name) \o MacPhaseName)

\* 24 characters, each an upper-case hexadecimal digit
IsId(id) ==
    /\ Len(id) = 24
    /\ \A k \in 1..24 : \E d \in 1..16 :
          SubSeq(id, k, k) = SubSeq("0123456789ABCDEF", d, d)

\* what hashlib gives for the hashed texts in a Python process
HashlibIds ==
    [text \in HashedTexts |->
        CASE text = "libfipers.a_file_ref" -> "30547B148C487C04BC4E818D"
          [] text = "libfipers.a_build_file" -> "E6805C116B180748441DD57A"
          [] text = "libfipers.dylib_file_ref" -> "05F837BAEDEDE04166CFCDB1"
          [] text = "libfipers.dylib_build_file" -> "BEDA58682F6477991E48C87B"
          [] text = "libssl.3.dylib_file_ref" -> "80ED1D64FBCEBF2E20B9B47B"
          [] text = "libssl.3.dylib_build_file" -> "EF0B0A7049F9FD6A26918E43"
          [] text = "libcrypto.3.dylib_file_ref" -> "FCA8A303B711B3B0D54E25ED"
          [] text = "libcrypto.3.dylib_build_file" -> "F13EEE5D7C2BF9DEA1CE6058"]

\* every identifier has the format and is the one hashlib gives
IdsWellFormed ==
    \A text \in HashedTexts :
        /\ IsId(generate_id(text))
        /\ generate_id(text) = HashlibIds[text]

\* C11: identifier determinism.  The identifier of a (name, role) pair is 24
\* upper-case hexadecimal digits, the first 96 bits of the SHA-1 of
\* name + role, the same in every process; and in every state, whatever the
\* manifest held and whichever run or script wrote it, every PBXFileReference
\* and PBXBuildFile record of a library carries the identifier of its
\* (name, role) pair and no other.
C11_IdsDeterministic ==
    /\ IdsWellFormed
    /\ manifest # NoFile
          => \A name \in Libraries :
                /\ FileRefIds(manifest, name) \subseteq {generate_id(name \o "_file_ref")}
                /\ BuildFileIds(manifest, name) \subseteq {generate_id(name \o "_build_file")}

\* a second macOS run has ended on a manifest where an earlier run registered
\* libfipers.dylib, and the records of all three libraries are there
C11_Witness ==
    /\ target = "macos"
    /\ RunEnded
    /\ runs = 2
    /\ wrote
    /\ start.backup # NoFile
    /\ FileRefIds(start.manifest, MacLib) # {}
    /\ \A name \in Artifacts("macos") :
          FileRefIds(manifest, name) # {} /\ BuildFileIds(manifest, name) # {}

\* C12: the Android script ensures the CMake integration.  Whenever its main
\* has run to the message "Android library integration check complete",
\* android/app/build.gradle.kts exists and holds the externalNativeBuild /
\* cmake configuration.
C12_CmakeEnsured ==
    (/\ target = "android"
     /\ RunEnded
     /\ "Android library integration check complete" \in out)
        => /\ gradle # NoFile
           /\ Has(gradle, <<"externalNativeBuild">>)
           /\ Has(gradle, <<"cmake">>)

\* ------------------------------------------------ C13: the children lists
\* where the children lists of the groups of a manifest start, in the order
\* of the document
ChildrenAt(doc) == {j \in 1..Len(doc) : doc[j] = "children" /\ IsAt(doc, j, Children)}

NthOf(S, k) == CHOOSE i \in S : Cardinality({j \in S : j <= i}) = k

\* the entries of the k-th children list, up to its closing ")"
ChildrenList(doc, k) ==
    LET c == NthOf(ChildrenAt(doc), k)
    IN  SubSeq(doc, c + Len(Children), FirstAt(doc, RP, c) - 1)

\* the k-th children list is that of the group named Frameworks
IsFrameworksList(doc, k) ==
    LET head == <<"/*", "Frameworks", "*/", "=", "{", "isa", "=", "PBXGroup", ";">>
    IN  IsAt(doc, NthOf(ChildrenAt(doc), k) - Len(head), head)

\* the group entries of the libraries that the manifest does not mention, in
\* the order in which the script of target t registers them
RECURSIVE NewGroupEntries(_, _)
NewGroupEntries(doc, names) ==
    IF names = <<>> THEN <<>>
    ELSE (IF Has(doc, Lex(Head(names))) THEN <<>> ELSE GroupEntry(Head(names)))
         \o NewGroupEntries(doc, Tail(names))

RegistrationOrder(t) == IF t = "ios" THEN <<IosLib>> ELSE <<SslLib, CryptoLib, MacLib>>

\* C13: Frameworks-group membership.  After a run of the iOS or the macOS
\* script on a manifest that has the group named Frameworks, the children
\* list of that group is what it was with the file references of the
\* libraries registered by this run appended at its end, and the children
\* list of every other group is what it was.
C13_FrameworksGroupOnly ==
    (/\ target \in {"ios", "macos"}
     /\ RunEnded
     /\ wrote
     /\ \E k \in 1..Cardinality(ChildrenAt(start.manifest)) :
           IsFrameworksList(start.manifest, k))
        => /\ Cardinality(ChildrenAt(manifest)) = Cardinality(ChildrenAt(start.manifest))
           /\ \A k \in 1..Cardinality(ChildrenAt(start.manifest)) :
                 ChildrenList(manifest, k) =
                    ChildrenList(start.manifest, k)
                    \o (IF IsFrameworksList(start.manifest, k)
                        THEN NewGroupEntries(start.manifest, RegistrationOrder(target))
                        ELSE <<>>)

\* the same for the iOS script alone
C13_IosPart ==
    target = "ios" => C13_FrameworksGroupOnly

\* ------------------------------------------------------- C14: flag repair
\* a run of the iOS script has ended on a manifest that mentioned libfipers.a
IosRepairRunEnded ==
    /\ target = "ios"
    /\ RunEnded
    /\ wrote
    /\ Has(start.manifest, Lex(IosLib))

\* the run added and removed no PBXFileReference and no PBXBuildFile record
C14_RecordsUnchanged ==
    IosRepairRunEnded
        => /\ FileRefCount(manifest, IosLib) = FileRefCount(start.manifest, IosLib)
           /\ BuildFileCount(manifest, IosLib) = BuildFileCount(start.manifest, IosLib)

\* C14: flag repair on an already-registered artifact.  After a run of the
\* iOS script on a manifest that mentions libfipers.a, the numbers of
\* PBXFileReference and PBXBuildFile records are what they were, and every
\* buildSettings block that lacked the forced-load directive of libfipers.a
\* has an OTHER_LDFLAGS list that holds "-force_load",
\* "$(PROJECT_DIR)/Frameworks/libfipers.a", whatever the other blocks hold.
C14_FlagsRepaired ==
    IosRepairRunEnded
        => /\ FileRefCount(manifest, IosLib) = FileRefCount(start.manifest, IosLib)
           /\ BuildFileCount(manifest, IosLib) = BuildFileCount(start.manifest, IosLib)
           /\ BlockCount(manifest) = BlockCount(start.manifest)
           /\ \A k \in 1..BlockCount(start.manifest) :
                 ~Has(BlockRegion(start.manifest, k), ForceLoad \o ArtifactPath)
                    => /\ Has(BlockRegion(manifest, k), LdHead)
                       /\ Has(BlockRegion(manifest, k), ForceLoad \o ArtifactPath)

\* ----------------------------------------------- C15: referential integrity
PhaseNameOf(t) == IF t = "ios" THEN IosPhaseName ELSE MacPhaseName

\* the run that ended put one more occurrence of the text lit in the manifest
Added(lit) ==
    Cardinality({j \in 1..Len(manifest) : manifest[j] = lit[1] /\ IsAt(manifest, j, lit)})
        > Cardinality({j \in 1..Len(start.manifest) :
                          start.manifest[j] = lit[1] /\ IsAt(start.manifest, j, lit)})

\* what C15 says of the library name after a run of the script of target
IntegrityOf(name) ==
    /\ Added(PhaseEntry(name, PhaseNameOf(target)))
          => BuildFileId(name) \in BuildFileIds(manifest, name)
    /\ Added(BuildFileEntry(name, PhaseNameOf(target)))
          => FileRefId(name) \in FileRefIds(manifest, name)
    /\ Added(GroupEntry(name))
          => FileRefId(name) \in FileRefIds(manifest, name)

\* C15: referential integrity of the written manifest.  After a run of the iOS
\* or the macOS script, every entry that the run added to the files list of a
\* build phase names a PBXBuildFile record of the manifest, and every
\* PBXBuildFile record and every group child that the run added names a
\* PBXFileReference record of the manifest.
C15_ReferentialIntegrity ==
    (target \in {"ios", "macos"} /\ RunEnded /\ wrote)
        => \A name \in Artifacts(target) : IntegrityOf(name)

\* the same for the manifests that have both section end markers
C15_WithBothMarkers ==
    (Has(start.manifest, <<EndFileRef>>) /\ Has(start.manifest, <<EndBuildFile>>))
        => C15_ReferentialIntegrity

\* -------------------------------------------- C16: registered files exist
\* the manifest has a PBXFileReference or a PBXBuildFile record of the library
Registered(doc, name) == FileRefIds(doc, name) # {} \/ BuildFileIds(doc, name) # {}

\* C16: registered artifacts exist on disk.  At the end of a macOS run that
\* wrote the manifest, every library that has a record in project.pbxproj
\* (libfipers.dylib, libssl.3.dylib, libcrypto.3.dylib) is a file of
\* macos/Frameworks.
C16_RegisteredOnDisk ==
    (target = "macos" /\ RunEnded /\ wrote)
        => \A name \in Artifacts("macos") :
              Registered(manifest, name) => name \in frameworks.files

\* the same for libfipers.dylib alone
C16_LibraryOnDisk ==
    (target = "macos" /\ RunEnded /\ wrote)
        => (Registered(manifest, MacLib) => MacLib \in frameworks.files)

=============================================================================
